---------------------------- MODULE Spec2Model ----------------------------
(***************************************************************************)
(* A model of the LEGO Duplo train controllers:                            *)
(*   src/duplo-train-controller/duplo_train_controller.py                  *)
(*       (class DuploTrainController, interactive_control, main)           *)
(*   src/duplo_2.0.py  (class DuploTrainToddlerController)                 *)
(*                                                                         *)
(* Bytes are the integers 0..255, a frame is a sequence of bytes.  Python  *)
(* indexes from 0 and TLA+ from 1: B(data, i) below is Python's data[i].   *)
(* An optional value is None (the empty tuple) or Some(x) (a 1-tuple).     *)
(***************************************************************************)
EXTENDS Integers, Sequences, FiniteSets, TLC

VARIABLES
    phase,              \* position of main(): "start", "interactive", "sweep", "swept",
                        \* "replay", "replayed", "finally", "disconnecting", "done"
    client,             \* self.client: "None" or "BleakClient"
    device,             \* self.device: "None" or "train"
    is_connected,       \* self.client.is_connected
    handler,            \* the callback subscribed with start_notify
    motor_port,         \* self.motor_port
    speaker_port,       \* self.speaker_port
    led_port,           \* self.led_port
    last_notification,  \* self.last_notification
    voltage_baseline,   \* controller.voltage_baseline
    count_baseline,     \* controller.count_baseline
    last_5_commands,    \* controller.last_5_commands
    voltage_changes,    \* voltage_changes of command 'D'
    motion_changes,     \* motion_changes of command 'D'
    op,                 \* the operation that ran last
    arg,                \* its argument
    tx,                 \* the frames it handed to write_gatt_char, in order
    result,             \* what it returned, or the exception it raised
    msg,                \* what a handler decoded (and logged) from its frame
    rd,                 \* the indices a handler subscripted in its frame
    rets,               \* the values send_command returned to it, in order
    t_client,           \* toddler controller: self.client
    t_device,           \* toddler controller: self.device
    t_connected,        \* toddler controller: self.client.is_connected
    t_orphans,          \* toddler controller: earlier clients still connected
    t_pc,               \* toddler main(): "main", "loop", "except", "reconnect",
                        \*   "finally", "disconnecting", "done"
    t_running,          \* toddler controller: self.running
    t_reconnecting,     \* toddler controller: self.reconnecting
    t_attempt,          \* attempt, the index of the for loop being run
    t_ctx,              \* where handle_reconnection was called: "try", "except"
    t_scans,            \* scans made by the running handle_reconnection call
    t_notfound,         \* those of them that found no train
    t_last_fails,       \* attempts that failed before the last successful connect
    t_cancelled,        \* the task of main() was cancelled
    t_config,           \* self.config["color_range"]
    t_current_color,    \* self.current_color
    t_next_color,       \* next_color of a cycle_color call in progress
    last_200_commands,  \* controller.last_200_commands
    command_history,    \* controller.command_history
    sweep_pos,          \* iterations begun by the loops of command 'D'
    skip_commands,      \* skip_commands of command 'D'
    unique_events,      \* unique_events of command 'R'
    interesting_ranges, \* interesting_ranges of command 'R'
    acc                 \* the uses of the command buffers by the last step

ctl_vars == <<phase, client, device, is_connected, handler>>
port_vars == <<motor_port, speaker_port, led_port>>
sensor_vars == <<voltage_baseline, count_baseline, last_5_commands,
                 voltage_changes, motion_changes>>
call_vars == <<op, arg, tx, result, msg, rd, rets>>
link_vars == <<t_client, t_device, t_connected, t_orphans>>
sup_vars == <<t_pc, t_running, t_reconnecting, t_attempt, t_ctx, t_scans,
              t_notfound, t_last_fails>>
color_vars == <<t_config, t_current_color, t_next_color>>
toddler_vars == <<link_vars, sup_vars, t_cancelled, color_vars>>
sweep_vars == <<last_200_commands, command_history, sweep_pos, skip_commands,
                unique_events, interesting_ranges, acc>>
vars == <<ctl_vars, port_vars, last_notification, sensor_vars, call_vars,
          toddler_vars, sweep_vars>>

-----------------------------------------------------------------------------
(* Bounds of the model *)

\* longest inbound frame delivered to a handler
MaxFrameLen == 11

\* largest magnitude of a requested motor speed
MaxSpeed == 150

\* largest magnitude of a requested sound id or color
MaxId == 12

-----------------------------------------------------------------------------
(* Program constants *)

MOTOR_PORT == 50
MSG_HUB_PROPERTIES == 1
MSG_HUB_ACTIONS == 2
MSG_HUB_ATTACHED_IO == 4
MSG_PORT_INFORMATION_REQUEST == 33
MSG_PORT_MODE_INFORMATION_REQUEST == 34
MSG_PORT_OUTPUT_COMMAND == 129

None == <<>>
Some(x) == <<x>>
NoMsg == [kind |-> "None"]

B(data, i) == data[i + 1]
Take(s, n) == SubSeq(s, 1, n)
Slice(data, lo, hi) == SubSeq(data, lo + 1, IF hi < Len(data) THEN hi ELSE Len(data))
Range(s) == {s[i] : i \in 1..Len(s)}
Abs(x) == IF x < 0 THEN 0 - x ELSE x

RECURSIVE FromBytesLittle(_)
FromBytesLittle(s) ==
    IF s = <<>> THEN 0 ELSE s[1] + 256 * FromBytesLittle(Tail(s))

\* int.from_bytes(s, 'little', signed=True): the last byte carries the sign
RECURSIVE FromBytesLittleSigned(_)
FromBytesLittleSigned(s) ==
    IF s = <<>> THEN 0
    ELSE IF Len(s) = 1 THEN (IF s[1] >= 128 THEN s[1] - 256 ELSE s[1])
    ELSE s[1] + 256 * FromBytesLittleSigned(Tail(s))

\* data.hex().startswith(prefix.hex())
StartsWith(data, prefix) ==
    Len(data) >= Len(prefix) /\ Take(data, Len(prefix)) = prefix

\* bytes.decode('ascii', errors='ignore').rstrip('\x00')
RECURSIVE RStripNul(_)
RStripNul(s) ==
    IF s # <<>> /\ s[Len(s)] = 0 THEN RStripNul(Take(s, Len(s) - 1)) ELSE s

DecodeAsciiIgnore(s) == SelectSeq(s, LAMBDA b : b < 128)


-----------------------------------------------------------------------------
(* Inbound frames.  A frame is the first n bytes of                        *)
(* <<n, 0, msg_type, b3, b4, b5, b6, b7, 1, 0, 1, 0, ...>>.                *)

Frame(n, msg_type, b3, b4, b5, b6, b7) ==
    Take(<<n, 0, msg_type, b3, b4, b5, b6, b7, 1, 0, 1, 0, 1, 0, 1, 0>>, n)

\* buffers too short to hold a message type
ShortFrames == {<<>>, <<1>>, <<4>>, <<2, 0>>, <<5, 0>>}

\* Hub Attached I/O: port, event, device type (2 bytes, little endian)
AttachedFrames ==
    {Frame(n, 4, p, e, t[1], t[2], 0) :
        n \in 3..7, p \in {50, 51}, e \in {0, 1},
        t \in {<<41, 0>>, <<91, 0>>, <<90, 0>>, <<41, 1>>}}

\* Generic Error: command type, error code
ErrorFrames ==
    {Frame(n, 5, c, e, 0, 0, 0) : n \in 3..6, c \in {1, 129}, e \in {5, 6}}

\* Port Output Command Feedback: port, feedback
FeedbackFrames ==
    {Frame(n, 130, p, f, 0, 0, 0) : n \in 3..6, p \in {50, 52}, f \in {1, 10}}

\* Port Information: port, information type, capabilities, modes
PortInfoFrames ==
    {Frame(n, 67, 50, t, 7, 2, 3) :
        n \in {3, 4, 5, 6, 10} \cup {MaxFrameLen}, t \in {1, 2}}

\* Port Mode Information: port, mode, information type, payload
PortModeInfoFrames ==
    {Frame(n, 68, 50, 0, t, 65, 200) :
        n \in {3, 4, 5, 6, 8, 10} \cup {MaxFrameLen}, t \in {0, 1, 128}}

\* Port Value (Single): port, value
PortValueFrames ==
    {Frame(n, 69, v[1], v[2], v[3], 0, v[4]) :
        n \in 3..8,
        v \in {<<53, 0, 0, 0>>, <<53, 50, 0, 0>>, <<53, 200, 1, 0>>,
               <<54, 0, 0, 0>>, <<54, 0, 0, 255>>,
               <<50, 7, 0, 0>>}}

\* message types the handlers do not know (hub properties, vendor extensions)
UnknownFrames ==
    {Frame(n, t, 6, 2, 9, 0, 0) : n \in {3, 4, 6} \cup {MaxFrameLen}, t \in {1, 153}}

\* the frames quoted in the protocol description
ExampleFrames == {<<6, 0, 4, 50, 1, 41, 0>>, <<5, 0, 5, 1, 6>>}

Frames ==
    ShortFrames \cup AttachedFrames \cup ErrorFrames \cup FeedbackFrames
        \cup PortInfoFrames \cup PortModeInfoFrames \cup PortValueFrames
        \cup UnknownFrames \cup ExampleFrames

-----------------------------------------------------------------------------
(* DuploTrainController.notification_handler                               *)

\* what a handler call leaves behind
\* what a callback or a loop body does with a lock or a buffer, in order
Acquire(lock) == [do |-> "acquire", on |-> lock]
Release(lock) == [do |-> "release", on |-> lock]
Use(how, buffer) == [do |-> how, on |-> buffer]

\* with lock: body
With(lock, body) == <<Acquire(lock)>> \o body \o <<Release(lock)>>

\* controller.command_lock is held by the trace before its i-th element
Held(trace, i) ==
    \E j \in 1..(i - 1) :
       /\ trace[j] = Acquire("command_lock")
       /\ \A k \in (j + 1)..(i - 1) : trace[k] # Release("command_lock")

\* the uses of buffers in a trace, each with whether command_lock was held
Accesses(trace) ==
    {[buf |-> trace[i].on, use |-> trace[i].do, locked |-> Held(trace, i)] :
        i \in {k \in DOMAIN trace : trace[k].do \notin {"acquire", "release"}}}

Ret(m, l, g, r) ==
    [motor |-> m, led |-> l, msg |-> g, rd |-> r, raised |-> FALSE, trace |-> <<>>,
     voltage_baseline |-> voltage_baseline, count_baseline |-> count_baseline,
     voltage_changes |-> voltage_changes, motion_changes |-> motion_changes]

\* a subscript past the end: IndexError, raised before anything is assigned
IndexError(data, R) ==
    [Ret(motor_port, led_port, NoMsg, {i \in R : i <= Len(data)})
        EXCEPT !.raised = TRUE]

\* evaluate body after subscripting data at the indices R, in ascending order
Checked(data, R, body) ==
    IF \E i \in R : i >= Len(data) THEN IndexError(data, R) ELSE body

\* the guard off by one
HasMsgType_OffByOne(data) == Len(data) >= 2

HasMsgType(data) == Len(data) >= 3

DeviceType(data) ==
    IF Len(data) > 6 THEN B(data, 5) + 256 * B(data, 6) ELSE B(data, 5)

\* msg_type == 0x04
Decode_AttachedIO(data) ==
    Checked(data, {2, 3, 4},
        LET port == B(data, 3)
            event == B(data, 4)
            R == IF Len(data) > 6 THEN {2, 3, 4, 5, 6} ELSE {2, 3, 4, 5}
        IN  IF event = 1
            THEN Checked(data, R,
                    LET device_type == DeviceType(data)
                    IN  Ret(IF device_type = 41 THEN Some(port) ELSE motor_port,
                            IF device_type = 41 THEN led_port
                            ELSE IF device_type = 91 THEN Some(port) ELSE led_port,
                            [kind |-> "AttachedIO", port |-> port,
                             device_type |-> device_type],
                            R))
            ELSE Ret(motor_port, led_port, NoMsg, {2, 3, 4}))

HasErrorFields(data) == Len(data) >= 6

\* msg_type == 0x05
Decode_GenericError(data) ==
    IF HasErrorFields(data)
    THEN Checked(data, {2, 3, 4},
            Ret(motor_port, led_port,
                [kind |-> "GenericError", cmd_type |-> B(data, 3),
                 error_code |-> B(data, 4)],
                {2, 3, 4}))
    ELSE Ret(motor_port, led_port, NoMsg, {2})

\* the feedback branch recording the port it names as the motor port
Feedback_SetsMotorPort(data) ==
    IF Len(data) >= 5
    THEN Ret(Some(B(data, 3)), led_port, NoMsg, {2, 3, 4})
    ELSE Ret(motor_port, led_port, NoMsg, {2})

\* msg_type == 0x82
Decode_PortOutputFeedback(data) ==
    IF Len(data) >= 5
    THEN Checked(data, {2, 3, 4},
            Ret(motor_port, led_port,
                [kind |-> "PortOutputFeedback", port |-> B(data, 3),
                 feedback |-> B(data, 4)],
                {2, 3, 4}))
    ELSE Ret(motor_port, led_port, NoMsg, {2})

\* msg_type == 0x43
Decode_PortInformation(data) ==
    IF Len(data) >= 6
    THEN Checked(data, {2, 3, 4},
            IF B(data, 4) = 1 /\ Len(data) >= 11
            THEN Checked(data, 2..10,
                    Ret(motor_port, led_port,
                        [kind |-> "PortInformation", port |-> B(data, 3),
                         capabilities |-> B(data, 5), total_modes |-> B(data, 6),
                         input_modes |-> B(data, 7) + 256 * B(data, 8),
                         output_modes |-> B(data, 9) + 256 * B(data, 10)],
                        2..10))
            ELSE Ret(motor_port, led_port, NoMsg, {2, 3, 4}))
    ELSE Ret(motor_port, led_port, NoMsg, {2})

\* msg_type == 0x44
Decode_PortModeInformation(data) ==
    IF Len(data) >= 6
    THEN Checked(data, {2, 3, 4, 5},
            LET port == B(data, 3)
                mode == B(data, 4)
                info_type == B(data, 5)
            IN  IF info_type = 0
                THEN Ret(motor_port, led_port,
                         [kind |-> "PortModeName", port |-> port, mode |-> mode,
                          name |-> RStripNul(DecodeAsciiIgnore(
                                      Slice(data, 6, Len(data))))],
                         {2, 3, 4, 5})
                ELSE IF info_type = 128 /\ Len(data) >= 11
                THEN Checked(data, 2..9,
                        Ret(motor_port, led_port,
                            [kind |-> "PortModeFormat", port |-> port,
                             mode |-> mode, num_values |-> B(data, 6),
                             data_type |-> B(data, 7)],
                            2..9))
                ELSE Ret(motor_port, led_port, NoMsg, {2, 3, 4, 5}))
    ELSE Ret(motor_port, led_port, NoMsg, {2})

\* msg_type == 0x45
Decode_PortValue(data) ==
    IF Len(data) >= 5
    THEN Checked(data, {2, 3},
            Ret(motor_port, led_port,
                [kind |-> "PortValue", port |-> B(data, 3),
                 value_data |-> Slice(data, 4, Len(data))],
                {2, 3}))
    ELSE Ret(motor_port, led_port, NoMsg, {2})

\* a subscript the unknown message type does not have
Unrecognized_ReadsPort(data) ==
    Checked(data, {2, 3}, Ret(Some(B(data, 3)), led_port, NoMsg, {2, 3}))

\* no branch of the if/elif chain matches
Decode_Unrecognized(data) == Ret(motor_port, led_port, NoMsg, {2})

notification_handler(data) ==
    IF HasMsgType(data)
    THEN Checked(data, {2},
            LET msg_type == B(data, 2)
            IN  CASE msg_type = 4 -> Decode_AttachedIO(data)
                  [] msg_type = 5 -> Decode_GenericError(data)
                  [] msg_type = 130 -> Decode_PortOutputFeedback(data)
                  [] msg_type = 67 -> Decode_PortInformation(data)
                  [] msg_type = 68 -> Decode_PortModeInformation(data)
                  [] msg_type = 69 -> Decode_PortValue(data)
                  [] OTHER -> Decode_Unrecognized(data))
    ELSE Ret(motor_port, led_port, NoMsg, {})


-----------------------------------------------------------------------------
(* interactive_control, command 'D': enhanced_handler                      *)

IsMotorFeedback(data) == StartsWith(data, <<5, 0, 130, 52, 10>>)

EnhancedHasMsgType(data) == Len(data) >= 3

\* port == 0x35: voltage, 2 bytes little endian
Enhanced_Voltage(data) ==
    LET voltage == FromBytesLittle(Slice(data, 4, 6))
        keep == Ret(motor_port, led_port, NoMsg, {2, 3})
    IN  IF voltage_baseline = None
        THEN [keep EXCEPT !.voltage_baseline = Some(voltage)]
        ELSE IF Abs(voltage - voltage_baseline[1]) > 100
        THEN [keep EXCEPT !.voltage_changes = @ \cup Range(last_5_commands),
                          !.trace = With("command_lock",
                                       <<Use("read", "last_5_commands")>>)
                                    \o With("changes_lock", <<>>)]
        ELSE keep

\* port == 0x36: motion count, 4 bytes little endian, signed
Enhanced_Count(data) ==
    LET count == FromBytesLittleSigned(Slice(data, 4, 8))
        keep == Ret(motor_port, led_port, NoMsg, {2, 3})
    IN  IF count_baseline = None
        THEN [keep EXCEPT !.count_baseline = Some(count)]
        ELSE IF count # count_baseline[1]
        THEN [keep EXCEPT !.motion_changes = @ \cup Range(last_5_commands),
                          !.trace = With("command_lock",
                                       <<Use("read", "last_5_commands")>>)
                                    \o With("changes_lock", <<>>),
                          !.count_baseline = Some(count)]
        ELSE keep

enhanced_handler(data) ==
    IF IsMotorFeedback(data)
    THEN Ret(motor_port, led_port, NoMsg, {})
    ELSE IF EnhancedHasMsgType(data)
    THEN Checked(data, {2},
            IF B(data, 2) = 69
            THEN Checked(data, {2, 3},
                    LET port == B(data, 3)
                    IN  IF port = 53 /\ Len(data) >= 6
                        THEN Enhanced_Voltage(data)
                        ELSE IF port = 54 /\ Len(data) >= 8
                        THEN Enhanced_Count(data)
                        ELSE Ret(motor_port, led_port, NoMsg, {2, 3}))
            ELSE Ret(motor_port, led_port, NoMsg, {2}))
    ELSE Ret(motor_port, led_port, NoMsg, {})

-----------------------------------------------------------------------------
(* interactive_control, command 'R': enhanced_handler                      *)

\* the element of command_history at current_idx, when there is one
Current(current_idx) ==
    IF current_idx >= 0 THEN {command_history[current_idx + 1]} ELSE {}

\* with controller.command_lock: current_idx = len(command_history) - 1
\* with changes_lock: if current_idx >= 0: command_history[current_idx]
Replay_Trace(current_idx) ==
    With("command_lock", <<Use("read", "command_history")>>)
    \o With("changes_lock",
            IF current_idx >= 0 THEN <<Use("index", "command_history")>>
            ELSE <<>>)

\* port == 0x35: voltage
Replay_Voltage(data) ==
    LET voltage == FromBytesLittle(Slice(data, 4, 6))
        keep == Ret(motor_port, led_port, NoMsg, {2, 3})
        current_idx == Len(command_history) - 1
    IN  IF voltage_baseline = None
        THEN [keep EXCEPT !.voltage_baseline = Some(voltage)]
        ELSE IF Abs(voltage - voltage_baseline[1]) > 100
        THEN [keep EXCEPT !.voltage_changes = @ \cup Current(current_idx),
                          !.trace = Replay_Trace(current_idx)]
        ELSE keep

\* port == 0x36: motion count
Replay_Count(data) ==
    LET count == FromBytesLittleSigned(Slice(data, 4, 8))
        keep == Ret(motor_port, led_port, NoMsg, {2, 3})
        current_idx == Len(command_history) - 1
    IN  IF count_baseline = None
        THEN [keep EXCEPT !.count_baseline = Some(count)]
        ELSE IF count # count_baseline[1]
        THEN [keep EXCEPT !.motion_changes = @ \cup Current(current_idx),
                          !.trace = Replay_Trace(current_idx),
                          !.count_baseline = Some(count)]
        ELSE keep

replay_handler(data) ==
    IF IsMotorFeedback(data)
    THEN Ret(motor_port, led_port, NoMsg, {})
    ELSE IF EnhancedHasMsgType(data)
    THEN Checked(data, {2},
            IF B(data, 2) = 69
            THEN Checked(data, {2, 3},
                    LET port == B(data, 3)
                    IN  IF port = 53 /\ Len(data) >= 6
                        THEN Replay_Voltage(data)
                        ELSE IF port = 54 /\ Len(data) >= 8
                        THEN Replay_Count(data)
                        ELSE Ret(motor_port, led_port, NoMsg, {2, 3}))
            ELSE Ret(motor_port, led_port, NoMsg, {2}))
    ELSE Ret(motor_port, led_port, NoMsg, {})



-----------------------------------------------------------------------------
(* Outbound: the transport and send_command                                *)

\* inputs of the command operations
PayloadLens == {0, 1, 3, 253, 254}
Payload(n, seed) == [i \in 1..n |-> (seed + i) % 256]
Payloads == {Payload(n, seed) : n \in PayloadLens, seed \in {0, 128}}
Speeds == {-150, -101, -100, -1, 0, 1, 100, 101, 150}
SoundIds == {-1, 0, 1, 3, 10, 11}
Colors == {-1, 0, 5, 10, 11}

\* self.client.write_gatt_char(CHARACTERISTIC_UUID, f) for each f of fs in turn,
\* on client cl whose link is up or not: the frames that went out, the
\* exception raised if any, and the link afterwards.  A write on a link that is
\* up either goes out or fails because the link drops.
WriteAll(cl, up, fs) ==
    IF cl = "None"
    THEN {[tx |-> <<>>, exc |-> "AttributeError", up |-> up]}
    ELSE IF ~up
    THEN {[tx |-> <<>>, exc |-> "BleakError", up |-> FALSE]}
    ELSE {[tx |-> fs, exc |-> "None", up |-> TRUE]}
         \cup {[tx |-> Take(fs, k), exc |-> "BleakError", up |-> FALSE] :
                  k \in 0..(Len(fs) - 1)}

\* the length byte not counting the two header bytes
Message_LengthWithoutHeader(command) == <<Len(command), 0>> \o command

\* message = bytearray([length, 0x00]) + command
Message(command) == <<Len(command) + 2, 0>> \o command

\* bytearray([length, 0x00]) raises ValueError when length is no byte
HeaderFits(command) == Len(command) + 2 <= 255

\* send_command returning True without a connection
send_command_Optimistic(cl, up, command) ==
    IF cl = "None" \/ ~up
    THEN {[tx |-> <<>>, ret |-> "True", up |-> up]}
    ELSE {[tx |-> w.tx, ret |-> "True", up |-> w.up] :
             w \in WriteAll(cl, up, <<Message(command)>>)}

\* DuploTrainController.send_command on client cl: what was written, the value
\* returned, the link afterwards
send_command(cl, up, command) ==
    IF cl = "None" \/ ~up
    THEN {[tx |-> <<>>, ret |-> "False", up |-> up]}
    ELSE IF ~HeaderFits(command)
    THEN {[tx |-> <<>>, ret |-> "False", up |-> up]}
    ELSE {[tx |-> w.tx, ret |-> IF w.exc = "None" THEN "True" ELSE "False",
           up |-> w.up] : w \in WriteAll(cl, up, <<Message(command)>>)}

\* two send_command calls in a row, the return values dropped
SendTwo(cl, up, c1, c2) ==
    UNION {{[tx |-> w1.tx \o w2.tx, up |-> w2.up, rets |-> <<w1.ret, w2.ret>>] :
                w2 \in send_command(cl, w1.up, c2)} :
           w1 \in send_command(cl, up, c1)}

\* toddler controller: message = bytearray([len(command) + 2, 0x00]) + command
t_Message(command) == <<Len(command) + 2, 0>> \o command

\* DuploTrainToddlerController.send_command: no connection check, nothing caught
t_send_command(cl, up, command) ==
    IF ~HeaderFits(command)
    THEN {[tx |-> <<>>, exc |-> "ValueError", up |-> up]}
    ELSE WriteAll(cl, up, <<t_Message(command)>>)

\* sign and magnitude instead of two's complement
SpeedByte_SignMagnitude(speed) == IF speed < 0 THEN 128 - speed ELSE speed

\* two's complement byte of a speed
SpeedByte(speed) == IF speed < 0 THEN (256 + speed) % 256 ELSE speed % 256

\* no limit on the speed
Clamp_Unlimited(lo, hi, x) == x

Clamp(lo, hi, x) == IF x < lo THEN lo ELSE IF x > hi THEN hi ELSE x

set_motor_speed_frame(speed) ==
    <<8, 0, 129, MOTOR_PORT, 1, 81, 0, SpeedByte(Clamp(-100, 100, speed))>>

\* the port of the comment ("MOTOR_PORT, # 0x00") instead of MOTOR_PORT
set_motor_simple_command_Port0(speed) ==
    <<MSG_PORT_OUTPUT_COMMAND, 0, 1, 81, 0, SpeedByte(Clamp(-100, 100, speed))>>

set_motor_simple_command(speed) ==
    <<MSG_PORT_OUTPUT_COMMAND, MOTOR_PORT, 1, 81, 0,
      SpeedByte(Clamp(-100, 100, speed))>>

test2_frame(speed) == <<8, 0, 129, 1, 17, 81, 1, 9>>

\* the sound id as given
play_sound_frame_Unclamped(sound_id) == <<4, 0, 2, 1, sound_id>>

play_sound_frame(sound_id) == <<4, 0, 2, 1, Clamp(1, 10, sound_id)>>

\* the color as given
set_light_color_frames_Unclamped(color) ==
    <<<<8, 0, 129, 51, 16, 81, 0, color>>,
      <<8, 0, 129, 51, 17, 81, 0, color>>,
      <<8, 0, 129, 51, 17, 81, 1, color>>>>

set_light_color_frames(color) ==
    LET c == Clamp(0, 10, color)
    IN  <<<<8, 0, 129, 51, 16, 81, 0, c>>,
          <<8, 0, 129, 51, 17, 81, 0, c>>,
          <<8, 0, 129, 51, 17, 81, 1, c>>>>

activate_hub_command == <<MSG_HUB_PROPERTIES, 2, 2>>

\* interactive_control: direct writes of the command loop
drive_frame(event) == <<9, 0, 129, 52, 17, 81, 1, event, 1>>
hub_action_frame(action_type, value) == <<4, 0, 2, action_type, value>>
hub_property_frame(prop, value) == <<5, 0, 1, prop, 1, value>>
subscribe_frame(port, mode, enable) == <<10, 0, 65, port, mode, 1, 0, 0, 0, enable>>


-----------------------------------------------------------------------------
(* State machine                                                           *)

\* get_default_config: the color_range of the default configuration
get_default_config == [min |-> 0, max |-> 23]

Init ==
    /\ phase = "start"
    /\ client = "None"
    /\ device = "None"
    /\ is_connected = FALSE
    /\ handler = "none"
    /\ motor_port = None
    /\ speaker_port = None
    /\ led_port = None
    /\ last_notification = None
    /\ voltage_baseline = None
    /\ count_baseline = None
    /\ last_5_commands = <<>>
    /\ voltage_changes = {}
    /\ motion_changes = {}
    /\ op = "init"
    /\ arg = <<>>
    /\ tx = <<>>
    /\ result = "None"
    /\ msg = NoMsg
    /\ rd = {}
    /\ rets = <<>>
    /\ t_client = "None"
    /\ t_device = "None"
    /\ t_connected = FALSE
    /\ t_orphans = 0
    /\ t_pc = "main"
    /\ t_running = TRUE
    /\ t_reconnecting = FALSE
    /\ t_attempt = 0
    /\ t_ctx = "none"
    /\ t_scans = 0
    /\ t_notfound = 0
    /\ t_last_fails = 0
    /\ t_cancelled = FALSE
    /\ t_config = get_default_config
    /\ t_current_color = 0
    /\ t_next_color = None
    /\ last_200_commands = <<>>
    /\ command_history = <<>>
    /\ sweep_pos = 0
    /\ skip_commands = {}
    /\ unique_events = <<>>
    /\ interesting_ranges = {}
    /\ acc = {}

\* the record of the call that just ran; rs are the values its send_command
\* calls returned to it
CallRets(name, a, frames, res, rs) ==
    /\ op' = name
    /\ arg' = a
    /\ tx' = frames
    /\ result' = res
    /\ msg' = NoMsg
    /\ rd' = {}
    /\ rets' = rs

Call(name, a, frames, res) == CallRets(name, a, frames, res, <<>>)

\* DuploTrainController.connect, called once by main()
Connect ==
    /\ phase = "start"
    /\ device' = "train"
    /\ client' = "BleakClient"
    /\ \/ \* client.connect() or start_notify raises BleakError
          /\ is_connected' = FALSE
          /\ handler' = handler
          /\ phase' = "done"
          /\ Call("connect", "train", <<>>, "False")
       \/ \* connected and subscribed: activate_hub
          \E w \in send_command("BleakClient", TRUE, activate_hub_command) :
             /\ is_connected' = w.up
             /\ handler' = "notification_handler"
             /\ phase' = "interactive"
             /\ CallRets("connect", "train", w.tx, "True", <<w.ret>>)
    /\ UNCHANGED <<port_vars, last_notification, sensor_vars, toddler_vars, sweep_vars>>

\* the state a handler call leaves, h being what the handler computed
Handled(name, data, h) ==
    /\ last_notification' = Some(data)
    /\ motor_port' = h.motor
    /\ led_port' = h.led
    /\ voltage_baseline' = h.voltage_baseline
    /\ count_baseline' = h.count_baseline
    /\ voltage_changes' = h.voltage_changes
    /\ motion_changes' = h.motion_changes
    /\ op' = name
    /\ arg' = data
    /\ tx' = <<>>
    /\ result' = IF h.raised THEN "IndexError" ELSE "None"
    /\ msg' = h.msg
    /\ rd' = h.rd
    /\ rets' = <<>>
    /\ acc' = Accesses(h.trace)
    /\ UNCHANGED <<ctl_vars, speaker_port, last_5_commands, toddler_vars,
                   last_200_commands, command_history, sweep_pos,
                   skip_commands, unique_events, interesting_ranges>>

\* a notification is delivered to the subscribed callback
Subscribed(name) ==
    /\ phase \in {"interactive", "sweep", "replay"}
    /\ is_connected
    /\ handler = name

Notify(F) ==
    /\ Subscribed("notification_handler")
    /\ \E data \in F :
          Handled("notification_handler", data, notification_handler(data))

NotifyEnhanced(F) ==
    /\ Subscribed("enhanced_handler")
    /\ \E data \in F :
          Handled("enhanced_handler", data, enhanced_handler(data))

NotifyReplay(F) ==
    /\ Subscribed("replay_handler")
    /\ \E data \in F :
          Handled("replay_handler", data, replay_handler(data))

\* the link drops
LinkDrop ==
    /\ is_connected
    /\ is_connected' = FALSE
    /\ UNCHANGED <<phase, client, device, handler, port_vars, last_notification,
                   sensor_vars, call_vars, toddler_vars, sweep_vars>>

\* a method of the controller that returns a value and raises nothing
ReturnsRets(name, a, frames, res, up, rs) ==
    /\ phase = "interactive"
    /\ CallRets(name, a, frames, res, rs)
    /\ is_connected' = up
    /\ UNCHANGED <<phase, client, device, handler, port_vars, last_notification,
                   sensor_vars, toddler_vars, sweep_vars>>

Returns(name, a, frames, res, up) == ReturnsRets(name, a, frames, res, up, <<>>)

\* a command of the interactive loop that writes frames directly: an exception
\* leaves interactive_control and reaches the finally clause of main()
Writes(name, a, frames) ==
    /\ phase = "interactive"
    /\ \E w \in WriteAll(client, is_connected, frames) :
          /\ Call(name, a, w.tx, w.exc)
          /\ is_connected' = w.up
          /\ phase' = IF w.exc = "None" THEN "interactive" ELSE "finally"
    /\ UNCHANGED <<client, device, handler, port_vars, last_notification,
                   sensor_vars, toddler_vars, sweep_vars>>

SendCommand ==
    /\ phase = "interactive"
    /\ \E command \in Payloads :
       \E w \in send_command(client, is_connected, command) :
          ReturnsRets("send_command", command, w.tx, w.ret, w.up, <<w.ret>>)

QueryPortInformation ==
    /\ phase = "interactive"
    /\ \E port \in {50, 51} :
       \E w \in SendTwo(client, is_connected,
                        <<MSG_PORT_INFORMATION_REQUEST, port, 1>>,
                        <<MSG_PORT_INFORMATION_REQUEST, port, 2>>) :
          ReturnsRets("query_port_information", port, w.tx, "None", w.up, w.rets)

QueryPortModes ==
    /\ phase = "interactive"
    /\ \E port \in {50, 51}, mode \in {0, 1} :
       \E w \in SendTwo(client, is_connected,
                        <<MSG_PORT_MODE_INFORMATION_REQUEST, port, mode, 0>>,
                        <<MSG_PORT_MODE_INFORMATION_REQUEST, port, mode, 128>>) :
          ReturnsRets("query_port_modes", <<port, mode>>, w.tx, "None", w.up,
                      w.rets)

SetMotorSimple ==
    /\ phase = "interactive"
    /\ \E speed \in Speeds :
       \E w \in send_command(client, is_connected, set_motor_simple_command(speed)) :
          ReturnsRets("set_motor_simple", speed, w.tx, "None", w.up, <<w.ret>>)

SetMotorSpeed ==
    /\ phase = "interactive"
    /\ \E speed \in Speeds :
       Writes("set_motor_speed", speed, <<set_motor_speed_frame(speed)>>)

Test2 ==
    /\ phase = "interactive"
    /\ \E speed \in Speeds : Writes("test2", speed, <<test2_frame(speed)>>)

PlaySound ==
    /\ phase = "interactive"
    /\ \E sound_id \in SoundIds :
       Writes("play_sound", sound_id, <<play_sound_frame(sound_id)>>)

SetLightColor ==
    /\ phase = "interactive"
    /\ \E color \in Colors :
       Writes("set_light_color", color, set_light_color_frames(color))

\* the motor operations over the speeds S
SetMotorSpeedOf(S) ==
    /\ phase = "interactive"
    /\ \E speed \in S :
       Writes("set_motor_speed", speed, <<set_motor_speed_frame(speed)>>)

SetMotorSimpleOf(S) ==
    /\ phase = "interactive"
    /\ \E speed \in S :
       \E w \in send_command(client, is_connected, set_motor_simple_command(speed)) :
          ReturnsRets("set_motor_simple", speed, w.tx, "None", w.up, <<w.ret>>)

Test2Of(S) ==
    /\ phase = "interactive"
    /\ \E speed \in S : Writes("test2", speed, <<test2_frame(speed)>>)

\* play_sound and set_light_color over the arguments S
PlaySoundOf(S) ==
    /\ phase = "interactive"
    /\ \E sound_id \in S :
       Writes("play_sound", sound_id, <<play_sound_frame(sound_id)>>)

SetLightColorOf(S) ==
    /\ phase = "interactive"
    /\ \E color \in S :
       Writes("set_light_color", color, set_light_color_frames(color))

\* DuploTrainController.stop, command 's'
Stop ==
    /\ phase = "interactive"
    /\ IF client # "None" /\ is_connected
       THEN Writes("stop", 0, <<set_motor_speed_frame(0)>>)
       ELSE Returns("stop", 0, <<>>, "None", is_connected)

\* commands 'f', 'F', 'b', 'B'
KeyDrive ==
    /\ phase = "interactive"
    /\ \E event \in {1, 2} : Writes("drive", event, <<drive_frame(event)>>)

\* commands 'k', '2', '7': one Hub Action write
HubAction ==
    /\ phase = "interactive"
    /\ \E action_type \in {0, 2, 3, 7}, value \in {3, 10} :
       Writes("hub_action", <<action_type, value>>,
              <<hub_action_frame(action_type, value)>>)

\* command 'k': one Hub Property write
HubProperty ==
    /\ phase = "interactive"
    /\ \E prop \in {3, 8}, value \in {0, 10} :
       Writes("hub_property", <<prop, value>>, <<hub_property_frame(prop, value)>>)

\* command 'D' up to the sweep: reset the tracking state, replace the handler,
\* subscribe to the voltage and motion sensors
DualStartOf(S) ==
    /\ phase = "interactive"
    /\ \E skip \in S : skip_commands' = skip
    /\ voltage_baseline' = None
    /\ count_baseline' = None
    /\ last_5_commands' = <<>>
    /\ last_200_commands' = <<>>
    /\ sweep_pos' = 0
    /\ voltage_changes' = {}
    /\ motion_changes' = {}
    /\ acc' = Accesses(<<Use("write", "last_5_commands"),
                         Use("write", "last_200_commands")>>)
    /\ IF client = "None" \/ ~is_connected
       THEN \* stop_notify raises
            /\ Call("dual_start", <<>>, <<>>,
                    IF client = "None" THEN "AttributeError" ELSE "BleakError")
            /\ phase' = "finally"
            /\ UNCHANGED <<handler, is_connected>>
       ELSE \E w \in WriteAll(client, is_connected,
                              <<subscribe_frame(53, 0, 1), subscribe_frame(54, 1, 1)>>) :
               /\ Call("dual_start", <<>>, w.tx, w.exc)
               /\ handler' = "enhanced_handler"
               /\ is_connected' = w.up
               /\ phase' = IF w.exc = "None" THEN "sweep" ELSE "finally"
    /\ UNCHANGED <<client, device, port_vars, last_notification, toddler_vars,
                   command_history, unique_events, interesting_ranges>>

\* command 'D' with no working_commands.list file
DualStart == DualStartOf({{}})

\* the EVENTS command of the sweep
events_frame(event, volume) == <<9, 0, 129, 52, 17, 81, 1, event, volume>>

\* a buffer that is cut one entry too late
Appended_CutLate(buffer, cmd_tuple, limit) ==
    LET b == Append(buffer, cmd_tuple)
    IN  IF Len(b) > limit + 1 THEN Tail(b) ELSE b

\* buffer.append(cmd_tuple); if len(buffer) > limit: buffer.pop(0)
Appended(buffer, cmd_tuple, limit) ==
    LET b == Append(buffer, cmd_tuple)
    IN  IF Len(b) > limit THEN Tail(b) ELSE b

\* with controller.command_lock: the two appends of the sweep
SweepAppend ==
    With("command_lock",
         <<Use("write", "last_5_commands"), Use("write", "last_200_commands")>>)

\* command 'D': one iteration of "for event in range(256): for volume in
\* range(256)", among the first n
SweepStepTo(n) ==
    /\ phase = "sweep"
    /\ sweep_pos < n
    /\ sweep_pos < 256 * 256
    /\ sweep_pos' = sweep_pos + 1
    /\ LET event == sweep_pos \div 256
           volume == sweep_pos % 256
           cmd_tuple == <<event, volume>>
       IN  IF cmd_tuple \in skip_commands
           THEN /\ Call("sweep_skip", cmd_tuple, <<>>, "None")
                /\ acc' = {}
                /\ UNCHANGED <<phase, is_connected, last_5_commands,
                               last_200_commands>>
           ELSE \E space \in BOOLEAN :
                \E w \in WriteAll(client, is_connected,
                                  <<events_frame(event, volume)>>) :
                   /\ last_5_commands' = Appended(last_5_commands, cmd_tuple, 5)
                   /\ last_200_commands' =
                         Appended(last_200_commands, cmd_tuple, 200)
                   /\ acc' = Accesses(
                         SweepAppend
                         \o (IF space
                             THEN With("command_lock",
                                       <<Use("read", "last_200_commands")>>)
                             ELSE <<>>)
                         \o (IF w.exc # "None"
                             THEN With("command_lock",
                                       <<Use("read", "last_200_commands")>>)
                             ELSE <<>>))
                   /\ Call("sweep_step", cmd_tuple, w.tx, w.exc)
                   /\ is_connected' = w.up
                   /\ phase' = IF w.exc = "None" THEN "sweep" ELSE "swept"
    /\ UNCHANGED <<client, device, handler, port_vars, last_notification,
                   voltage_baseline, count_baseline, voltage_changes,
                   motion_changes, toddler_vars, command_history,
                   skip_commands, unique_events, interesting_ranges>>

\* command 'D' after the sweep: restore the handler and unsubscribe, when
\* the client is still connected
DualEnd ==
    /\ phase \in {"sweep", "swept"}
    /\ phase' = "interactive"
    /\ IF client # "None" /\ is_connected
       THEN \E w \in WriteAll(client, is_connected,
                              <<subscribe_frame(53, 0, 0), subscribe_frame(54, 1, 0)>>) :
               /\ Call("dual_end", <<>>, w.tx, "None")
               /\ handler' = "notification_handler"
               /\ is_connected' = w.up
       ELSE /\ Call("dual_end", <<>>, <<>>, "None")
            /\ UNCHANGED <<handler, is_connected>>
    /\ UNCHANGED <<client, device, port_vars, last_notification, sensor_vars,
                   toddler_vars, sweep_vars>>

\* the range of indices marked when the spacebar is pressed at current_idx
Marked(current_idx) ==
    LET start_idx == IF current_idx - 5 > 0 THEN current_idx - 5 ELSE 0
        stop == IF current_idx + 6 < Len(unique_events) THEN current_idx + 6
                ELSE Len(unique_events)
    IN  {j \in start_idx..(stop - 1) : j < current_idx + 1}

\* command 'R' up to its loop; an exception is caught by the except clause of
\* the command and the command loop goes on
ReplayStartOf(E) ==
    /\ phase = "interactive"
    /\ \E events \in E, confirm \in BOOLEAN :
          /\ unique_events' = events
          /\ IF events = <<>> \/ ~confirm
             THEN /\ Call("replay_start", events, <<>>, "None")
                  /\ acc' = {}
                  /\ UNCHANGED <<phase, handler, is_connected, sensor_vars,
                                 command_history, interesting_ranges>>
             ELSE /\ voltage_baseline' = None
                  /\ count_baseline' = None
                  /\ command_history' = <<>>
                  /\ interesting_ranges' = {}
                  /\ voltage_changes' = {}
                  /\ motion_changes' = {}
                  /\ acc' = Accesses(<<Use("write", "command_history")>>)
                  /\ UNCHANGED last_5_commands
                  /\ IF client = "None" \/ ~is_connected
                     THEN /\ Call("replay_start", events, <<>>,
                                  IF client = "None" THEN "AttributeError"
                                  ELSE "BleakError")
                          /\ UNCHANGED <<phase, handler, is_connected>>
                     ELSE \E w \in WriteAll(client, is_connected,
                                            <<subscribe_frame(53, 0, 1),
                                              subscribe_frame(54, 1, 1)>>) :
                             /\ Call("replay_start", events, w.tx, w.exc)
                             /\ handler' = "replay_handler"
                             /\ is_connected' = w.up
                             /\ phase' = IF w.exc = "None" THEN "replay"
                                         ELSE "interactive"
    /\ UNCHANGED <<client, device, port_vars, last_notification, toddler_vars,
                   last_200_commands, sweep_pos, skip_commands>>

\* command 'R': one iteration of "for i, (event, volume) in
\* enumerate(unique_events)"
ReplayStep ==
    /\ phase = "replay"
    /\ Len(command_history) < Len(unique_events)
    /\ LET current_idx == Len(command_history)
           cmd_tuple == unique_events[current_idx + 1]
       IN  \E space \in BOOLEAN :
           \E w \in WriteAll(client, is_connected,
                             <<events_frame(cmd_tuple[1], cmd_tuple[2])>>) :
              LET marked == IF space
                            THEN interesting_ranges \cup Marked(current_idx)
                            ELSE interesting_ranges
              IN  /\ command_history' = Append(command_history, cmd_tuple)
                  /\ interesting_ranges' =
                        IF w.exc = "None"
                           /\ \E m \in marked :
                                 m <= current_idx /\ current_idx <= m + 5
                        THEN marked \cup {current_idx}
                        ELSE marked
                  /\ acc' = Accesses(
                        With("command_lock",
                             <<Use("write", "command_history")>>)
                        \o (IF space
                            THEN With("command_lock",
                                      <<Use("read", "command_history")>>)
                            ELSE <<>>)
                        \o (IF w.exc = "None"
                            THEN With("command_lock",
                                      <<Use("read", "command_history")>>)
                            ELSE <<>>))
                  /\ Call("replay_step", cmd_tuple, w.tx, w.exc)
                  /\ is_connected' = w.up
                  /\ phase' = IF w.exc = "None" THEN "replay" ELSE "replayed"
    /\ UNCHANGED <<client, device, handler, port_vars, last_notification,
                   sensor_vars, toddler_vars, last_200_commands, sweep_pos,
                   skip_commands, unique_events>>

\* command 'R' after its loop: restore the handler and unsubscribe, when the
\* client is still connected
ReplayEnd ==
    /\ \/ phase = "replayed"
       \/ phase = "replay" /\ Len(command_history) = Len(unique_events)
    /\ phase' = "interactive"
    /\ IF client # "None" /\ is_connected
       THEN \E w \in WriteAll(client, is_connected,
                              <<subscribe_frame(53, 0, 0), subscribe_frame(54, 1, 0)>>) :
               /\ Call("replay_end", <<>>, w.tx, "None")
               /\ handler' = "notification_handler"
               /\ is_connected' = w.up
       ELSE /\ Call("replay_end", <<>>, <<>>, "None")
            /\ UNCHANGED <<handler, is_connected>>
    /\ UNCHANGED <<client, device, port_vars, last_notification, sensor_vars,
                   toddler_vars, sweep_vars>>

\* command 'q'
Quit ==
    /\ phase = "interactive"
    /\ phase' = "finally"
    /\ Call("quit", <<>>, <<>>, "None")
    /\ UNCHANGED <<client, device, is_connected, handler, port_vars,
                   last_notification, sensor_vars, toddler_vars, sweep_vars>>

\* the finally clause going on to disconnect without the stop frame
ShutdownStop_SkipsStop ==
    /\ phase = "finally"
    /\ IF client # "None" /\ is_connected
       THEN /\ Call("shutdown_stop", 0, <<>>, "None")
            /\ phase' = "disconnecting"
       ELSE /\ Call("shutdown_skip", <<>>, <<>>, "None")
            /\ phase' = "done"
    /\ UNCHANGED <<client, device, is_connected, handler, port_vars,
                   last_notification, sensor_vars, toddler_vars, sweep_vars>>

\* main(), finally: stop the motor when still connected
ShutdownStop ==
    /\ phase = "finally"
    /\ IF client # "None" /\ is_connected
       THEN \E w \in WriteAll(client, is_connected, <<set_motor_speed_frame(0)>>) :
               /\ Call("shutdown_stop", 0, w.tx, "None")
               /\ is_connected' = w.up
               /\ phase' = "disconnecting"
       ELSE /\ Call("shutdown_skip", <<>>, <<>>, "None")
            /\ phase' = "done"
            /\ UNCHANGED is_connected
    /\ UNCHANGED <<client, device, handler, port_vars, last_notification,
                   sensor_vars, toddler_vars, sweep_vars>>

\* main(), finally: DuploTrainController.disconnect, which calls
\* client.disconnect() when the client is connected
Disconnect ==
    /\ phase = "disconnecting"
    /\ phase' = "done"
    /\ is_connected' = FALSE
    /\ Call("disconnect", <<>>, <<>>,
            IF client # "None" /\ is_connected THEN "Disconnected" ELSE "None")
    /\ UNCHANGED <<client, device, handler, port_vars, last_notification,
                   sensor_vars, toddler_vars, sweep_vars>>

\* DuploTrainToddlerController.connect on a fresh client: the link afterwards,
\* the frames written, the value returned.  client.connect() raises BleakError
\* (no link), start_notify raises BleakError (the link stays up), or the
\* activation command is sent.
t_connect ==
    {[up |-> FALSE, tx |-> <<>>, ret |-> "False"],
     [up |-> TRUE, tx |-> <<>>, ret |-> "False"]}
    \cup {[up |-> w.up, tx |-> w.tx,
           ret |-> IF w.exc = "None" THEN "True" ELSE "False"] :
              w \in t_send_command("BleakClient", TRUE, <<1, 2, 2>>)}

\* self.client = BleakClient(device.address): the client it replaces is not
\* disconnected
t_orphaned == IF t_client # "None" /\ t_connected THEN t_orphans + 1 ELSE t_orphans

\* DuploTrainToddlerController.connect
T_Connect ==
    /\ t_client = "None" \/ ~t_connected
    /\ t_device' = "train"
    /\ t_client' = "BleakClient"
    /\ \E c \in t_connect :
          /\ t_connected' = c.up
          /\ Call("t_connect", "train", c.tx, c.ret)
    /\ UNCHANGED <<ctl_vars, sweep_vars, t_cancelled, color_vars, port_vars, last_notification, sensor_vars,
                   t_orphans, sup_vars>>

\* DuploTrainToddlerController.send_command
T_SendCommand ==
    /\ \E command \in Payloads :
          \E w \in t_send_command(t_client, t_connected, command) :
             /\ Call("t_send_command", command, w.tx, w.exc)
             /\ t_connected' = w.up
    /\ UNCHANGED <<ctl_vars, sweep_vars, t_cancelled, color_vars, port_vars, last_notification, sensor_vars,
                   t_client, t_device, t_orphans, sup_vars>>

\* the link to the train drops: every client connected to it sees it
T_LinkDrop ==
    /\ t_connected \/ t_orphans > 0
    /\ t_connected' = FALSE
    /\ t_orphans' = 0
    /\ UNCHANGED <<ctl_vars, sweep_vars, t_cancelled, color_vars, port_vars, last_notification, sensor_vars,
                   call_vars, t_client, t_device, sup_vars>>

-----------------------------------------------------------------------------
(* DuploTrainToddlerController: main, run_interactive, handle_reconnection *)

\* reconnect_settings.max_attempts of the configuration
MaxAttempts == 3

\* largest color_range.max of a configuration file
MaxColor == 17

\* what the keys of the configuration are mapped to
Keys == {"FORWARD_64", "BACKWARD_64", "STOP", "HORN", "QUIT", "NO_SUCH_ACTION",
         "unassigned"}

\* self.config["actions"]
Actions ==
    [FORWARD_64 |-> [event |-> 1, speed |-> 64],
     BACKWARD_64 |-> [event |-> 2, speed |-> 64],
     STOP |-> [event |-> 7, speed |-> 0]]

\* execute_motor_action: the frames it writes
execute_motor_action_frames(action_name) ==
    IF action_name \notin DOMAIN Actions
    THEN <<>>
    ELSE IF action_name = "STOP"
    THEN << <<8, 0, 129, 50, 1, 81, 0, 0>> >>
    ELSE << <<10, 0, 129, 52, 17, 81, 1, Actions[action_name].event, 1,
              Actions[action_name].speed>> >>

play_horn_frame == <<10, 0, 129, 52, 17, 81, 1, 7, 1, 1>>

\* BleakScanner.discover in scan_for_train: a train, no train, or BleakError
ScanOutcomes == {"found", "none", "raises"}

\* the index of an earlier loop carried over
range_resume(prev) == prev

\* for attempt in range(max_attempts): the first index, given the last one used
range_start(prev) == 0

\* one more iteration after the last index
range_exhausted_late(attempt) == attempt >= MaxAttempts

\* for attempt in range(max_attempts): attempt was the last index
range_exhausted(attempt) == attempt + 1 >= MaxAttempts

\* handle_reconnection up to its for loop
EnterReconnection(ctx) ==
    /\ t_reconnecting' = TRUE
    /\ t_attempt' = range_start(t_attempt)
    /\ t_scans' = 0
    /\ t_notfound' = 0
    /\ t_ctx' = ctx
    /\ t_pc' = "reconnect"

\* main(): one iteration of the connection loop, before the try statement
T_MainAttempt ==
    /\ t_pc = "main"
    /\ \E scan \in ScanOutcomes :
          \/ /\ scan = "raises"
             /\ t_pc' = "done"
             /\ Call("t_main", <<scan>>, <<>>, "BleakError")
             /\ UNCHANGED <<link_vars, t_attempt, t_last_fails>>
          \/ /\ scan = "none"
             /\ t_pc' = IF range_exhausted(t_attempt) THEN "done" ELSE "main"
             /\ t_attempt' = IF range_exhausted(t_attempt) THEN t_attempt
                             ELSE t_attempt + 1
             /\ Call("t_main", <<scan>>, <<>>, "None")
             /\ UNCHANGED <<link_vars, t_last_fails>>
          \/ /\ scan = "found"
             /\ \E c \in t_connect :
                   /\ t_device' = "train"
                   /\ t_client' = "BleakClient"
                   /\ t_orphans' = t_orphaned
                   /\ t_connected' = c.up
                   /\ Call("t_main", <<scan>>, c.tx, c.ret)
                   /\ IF c.ret = "True"
                      THEN /\ t_pc' = "loop"
                           /\ t_last_fails' = t_attempt
                           /\ UNCHANGED t_attempt
                      ELSE /\ t_pc' = IF range_exhausted(t_attempt) THEN "done"
                                      ELSE "main"
                           /\ t_attempt' = IF range_exhausted(t_attempt)
                                           THEN t_attempt ELSE t_attempt + 1
                           /\ UNCHANGED t_last_fails
    /\ UNCHANGED <<ctl_vars, sweep_vars, t_cancelled, color_vars, port_vars, last_notification, sensor_vars,
                   t_running, t_reconnecting, t_ctx, t_scans, t_notfound>>

\* run_interactive: while self.running is false
T_LoopExit ==
    /\ t_pc = "loop"
    /\ ~t_running
    /\ t_pc' = "finally"
    /\ UNCHANGED <<ctl_vars, sweep_vars, t_cancelled, color_vars, port_vars, last_notification, sensor_vars,
                   call_vars, link_vars, t_running, t_reconnecting, t_attempt,
                   t_ctx, t_scans, t_notfound, t_last_fails>>

\* run_interactive: the connection check fails and no reconnection is flagged
T_ConnectionLost ==
    /\ t_pc = "loop"
    /\ t_running
    /\ t_client = "None" \/ ~t_connected
    /\ ~t_reconnecting
    /\ EnterReconnection("try")
    /\ Call("t_connection_lost", <<>>, <<>>, "None")
    /\ UNCHANGED <<ctl_vars, sweep_vars, t_cancelled, color_vars, port_vars, last_notification, sensor_vars,
                   link_vars, t_running, t_last_fails>>

\* run_interactive: the connection check fails and self.reconnecting is set:
\* continue
T_Continue ==
    /\ t_pc = "loop"
    /\ t_running
    /\ t_client = "None" \/ ~t_connected
    /\ t_reconnecting
    /\ Call("t_continue", <<>>, <<>>, "None")
    /\ UNCHANGED <<ctl_vars, sweep_vars, t_cancelled, color_vars, port_vars, last_notification, sensor_vars,
                   toddler_vars, sweep_vars>>

\* run_interactive: a key is read and its action run
T_Key ==
    /\ t_pc = "loop"
    /\ t_running
    /\ t_client # "None" /\ t_connected
    /\ \E key \in Keys :
          IF key = "QUIT"
          THEN /\ t_running' = FALSE
               /\ t_pc' = "finally"
               /\ Call("t_quit", <<key>>, <<>>, "None")
               /\ UNCHANGED <<t_connected, t_orphans>>
          ELSE IF key = "unassigned"
          THEN /\ Call("t_unassigned", <<key>>, <<>>, "None")
               /\ UNCHANGED <<t_running, t_pc, t_connected, t_orphans>>
          ELSE \E w \in WriteAll(t_client, t_connected,
                                 IF key = "HORN" THEN <<play_horn_frame>>
                                 ELSE execute_motor_action_frames(key)) :
                  /\ Call(IF key = "HORN" THEN "t_play_horn"
                          ELSE "t_execute_motor_action", <<key>>, w.tx, w.exc)
                  /\ t_connected' = w.up
                  /\ t_orphans' = IF w.up THEN t_orphans ELSE 0
                  /\ t_pc' = IF w.exc = "None" THEN "loop" ELSE "except"
                  /\ UNCHANGED t_running
    /\ UNCHANGED <<ctl_vars, sweep_vars, t_cancelled, color_vars, port_vars, last_notification, sensor_vars,
                   t_client, t_device, t_reconnecting, t_attempt, t_ctx,
                   t_scans, t_notfound, t_last_fails>>

\* run_interactive: except Exception
T_Except ==
    /\ t_pc = "except"
    /\ IF t_client = "None" \/ ~t_connected
       THEN EnterReconnection("except")
       ELSE /\ t_pc' = "loop"
            /\ UNCHANGED <<t_reconnecting, t_attempt, t_ctx, t_scans, t_notfound>>
    /\ Call("t_except", <<>>, <<>>, "None")
    /\ UNCHANGED <<ctl_vars, sweep_vars, t_cancelled, color_vars, port_vars, last_notification, sensor_vars,
                   link_vars, t_running, t_last_fails>>

\* handle_reconnection: the attempt failed
AttemptFailed ==
    IF range_exhausted(t_attempt)
    THEN /\ t_running' = FALSE
         /\ t_reconnecting' = FALSE
         /\ t_pc' = "loop"
         /\ UNCHANGED t_attempt
    ELSE /\ t_attempt' = t_attempt + 1
         /\ UNCHANGED <<t_running, t_reconnecting, t_pc>>

\* handle_reconnection: one iteration of the for loop
T_ReconnectAttempt ==
    /\ t_pc = "reconnect"
    /\ t_scans' = t_scans + 1
    /\ \E scan \in ScanOutcomes :
          \/ \* the exception leaves handle_reconnection: caught by
             \* run_interactive when raised in its try block, not when raised
             \* in its except block
             /\ scan = "raises"
             /\ t_pc' = IF t_ctx = "try" THEN "except" ELSE "finally"
             /\ Call("t_handle_reconnection", <<scan>>, <<>>, "BleakError")
             /\ UNCHANGED <<link_vars, t_running, t_reconnecting, t_attempt,
                            t_notfound, t_last_fails>>
          \/ /\ scan = "none"
             /\ t_notfound' = t_notfound + 1
             /\ AttemptFailed
             /\ Call("t_handle_reconnection", <<scan>>, <<>>, "None")
             /\ UNCHANGED <<link_vars, t_last_fails>>
          \/ /\ scan = "found"
             /\ \E c \in t_connect :
                   /\ t_device' = "train"
                   /\ t_client' = "BleakClient"
                   /\ t_orphans' = t_orphaned
                   /\ t_connected' = c.up
                   /\ Call("t_handle_reconnection", <<scan>>, c.tx, c.ret)
                   /\ IF c.ret = "True"
                      THEN /\ t_reconnecting' = FALSE
                           /\ t_pc' = "loop"
                           /\ t_last_fails' = t_attempt
                           /\ UNCHANGED <<t_running, t_attempt>>
                      ELSE /\ AttemptFailed
                           /\ UNCHANGED t_last_fails
             /\ UNCHANGED t_notfound
    /\ UNCHANGED <<ctl_vars, sweep_vars, t_cancelled, color_vars, port_vars, last_notification, sensor_vars, t_ctx>>

\* the color_range objects of a configuration file
ColorRanges ==
    {[min |-> lo, max |-> hi] : lo \in 0..MaxColor, hi \in 0..MaxColor}

\* load_config, called by __init__: the configuration file gives a color_range
\* with 0 <= min <= max
T_LoadConfig ==
    /\ t_pc = "main"
    /\ op = "init"
    /\ \E r \in ColorRanges :
          /\ r.min <= r.max
          /\ t_config' = r
          /\ Call("t_load_config", <<"color_range", r.min, r.max>>, <<>>, "None")
    /\ UNCHANGED <<ctl_vars, sweep_vars, port_vars, last_notification, sensor_vars,
                   link_vars, sup_vars, t_cancelled, t_current_color,
                   t_next_color>>

\* skip_colors of cycle_color
skip_colors == {0, 11, 16}

\* the event command of set_color and cycle_color
color_frame(color) == <<10, 0, 129, 52, 17, 81, 1, 4, 1, color>>

\* the next color without the step up to color_range.min
cycle_step_Unclamped(next_color, color_range) ==
    (next_color + 1) % (color_range.max + 1)

\* cycle_color: one iteration of the while loop up to its test
cycle_step(next_color, color_range) ==
    LET n == (next_color + 1) % (color_range.max + 1)
    IN  IF n < color_range.min THEN color_range.min ELSE n

\* run_interactive: a key mapped to COLOR_<color> is read: set_color
T_SetColor ==
    /\ t_pc = "loop"
    /\ t_running
    /\ t_client # "None" /\ t_connected
    /\ \E color \in 0..(MaxColor + 1) :
          IF color < t_config.min \/ color > t_config.max
          THEN /\ Call("t_set_color", <<"COLOR_", color>>, <<>>, "None")
               /\ UNCHANGED <<t_current_color, t_connected, t_orphans, t_pc>>
          ELSE \E w \in WriteAll(t_client, t_connected, <<color_frame(color)>>) :
                  /\ t_current_color' = color
                  /\ Call("t_set_color", <<"COLOR_", color>>, w.tx, w.exc)
                  /\ t_connected' = w.up
                  /\ t_orphans' = IF w.up THEN t_orphans ELSE 0
                  /\ t_pc' = IF w.exc = "None" THEN "loop" ELSE "except"
    /\ UNCHANGED <<ctl_vars, sweep_vars, port_vars, last_notification, sensor_vars,
                   t_client, t_device, t_running, t_reconnecting, t_attempt,
                   t_ctx, t_scans, t_notfound, t_last_fails, t_cancelled,
                   t_config, t_next_color>>

\* run_interactive: a key mapped to COLOR is read: cycle_color up to its loop
T_CycleColor ==
    /\ t_pc = "loop"
    /\ t_running
    /\ t_client # "None" /\ t_connected
    /\ t_pc' = "cycle_color"
    /\ t_next_color' = Some(t_current_color)
    /\ Call("t_cycle_color", <<"COLOR", t_current_color>>, <<>>, "None")
    /\ UNCHANGED <<ctl_vars, sweep_vars, port_vars, last_notification, sensor_vars,
                   link_vars, t_running, t_reconnecting, t_attempt, t_ctx,
                   t_scans, t_notfound, t_last_fails, t_cancelled, t_config,
                   t_current_color>>

\* cycle_color: one iteration of the while loop and, when it breaks, the rest
\* of cycle_color
T_CycleColorIter ==
    /\ t_pc = "cycle_color"
    /\ LET next_color == cycle_step(t_next_color[1], t_config)
       IN  IF next_color \in skip_colors
           THEN /\ t_next_color' = Some(next_color)
                /\ UNCHANGED <<call_vars, t_current_color, t_connected,
                               t_orphans, t_pc>>
           ELSE \E w \in WriteAll(t_client, t_connected,
                                  <<color_frame(next_color)>>) :
                   /\ t_current_color' = next_color
                   /\ t_next_color' = None
                   /\ Call("t_cycle_color", arg, w.tx, w.exc)
                   /\ t_connected' = w.up
                   /\ t_orphans' = IF w.up THEN t_orphans ELSE 0
                   /\ t_pc' = IF w.exc = "None" THEN "loop" ELSE "except"
    /\ UNCHANGED <<ctl_vars, sweep_vars, port_vars, last_notification, sensor_vars,
                   t_client, t_device, t_running, t_reconnecting, t_attempt,
                   t_ctx, t_scans, t_notfound, t_last_fails, t_cancelled,
                   t_config>>

\* CancelledError caught as an Exception by run_interactive
cancel_target_caught(ctx) == IF ctx = "try" THEN "except" ELSE "finally"

\* where CancelledError, raised in handle_reconnection, is handled: it is a
\* BaseException, which the except Exception clause of run_interactive lets
\* through to the finally clause of main()
cancel_target(ctx) == "finally"

\* handle_reconnection: the task is cancelled in asyncio.sleep(retry_delay),
\* the wait between two attempts
T_Cancel ==
    /\ t_pc = "reconnect"
    /\ t_scans > 0
    /\ ~t_cancelled
    /\ t_cancelled' = TRUE
    /\ t_pc' = cancel_target(t_ctx)
    /\ Call("t_cancel", <<>>, <<>>, "CancelledError")
    /\ UNCHANGED <<ctl_vars, sweep_vars, color_vars, port_vars, last_notification, sensor_vars,
                   link_vars, t_running, t_reconnecting, t_attempt, t_ctx,
                   t_scans, t_notfound, t_last_fails>>

\* main(), finally: the STOP action when the client is connected; an exception
\* of the write leaves main()
T_FinallyStop ==
    /\ t_pc = "finally"
    /\ IF t_client # "None" /\ t_connected
       THEN \E w \in WriteAll(t_client, t_connected,
                              execute_motor_action_frames("STOP")) :
               /\ Call("t_finally", <<"STOP">>, w.tx, w.exc)
               /\ t_connected' = w.up
               /\ t_orphans' = IF w.up THEN t_orphans ELSE 0
               /\ t_pc' = IF w.exc = "None" THEN "disconnecting" ELSE "done"
       ELSE /\ Call("t_finally", <<>>, <<>>, "None")
            /\ t_pc' = "done"
            /\ UNCHANGED <<t_connected, t_orphans>>
    /\ UNCHANGED <<ctl_vars, sweep_vars, t_cancelled, color_vars, port_vars, last_notification, sensor_vars,
                   t_client, t_device, t_running, t_reconnecting, t_attempt,
                   t_ctx, t_scans, t_notfound, t_last_fails>>

\* main(), finally: controller.client.disconnect()
T_FinallyDisconnect ==
    /\ t_pc = "disconnecting"
    /\ t_pc' = "done"
    /\ t_connected' = FALSE
    /\ Call("t_disconnect", <<>>, <<>>, "None")
    /\ UNCHANGED <<ctl_vars, sweep_vars, t_cancelled, color_vars, port_vars, last_notification, sensor_vars,
                   t_client, t_device, t_orphans, t_running, t_reconnecting,
                   t_attempt, t_ctx, t_scans, t_notfound, t_last_fails>>

-----------------------------------------------------------------------------
(* Specifications *)

\* frames of the full specification: the quoted ones and one of each kind
CoreFrames ==
    ExampleFrames \cup
    {<<2, 0>>, <<3, 0, 4>>, <<5, 0, 4, 50, 0>>, <<7, 0, 4, 50, 1, 91, 0>>,
     <<7, 0, 4, 51, 1, 41, 0>>, <<5, 0, 130, 50, 10>>, <<6, 0, 69, 53, 200, 1>>,
     <<4, 0, 1, 6>>, <<11, 0, 67, 50, 1, 7, 2, 3, 0, 1, 0>>,
     <<8, 0, 68, 50, 0, 0, 65, 0>>}

Commands ==
    \/ SendCommand
    \/ QueryPortInformation
    \/ QueryPortModes
    \/ SetMotorSimple
    \/ SetMotorSpeed
    \/ Test2
    \/ PlaySound
    \/ SetLightColor
    \/ Stop
    \/ KeyDrive
    \/ HubAction
    \/ HubProperty

\* DuploTrainController: main() and interactive_control
Next ==
    \/ Connect
    \/ Notify(CoreFrames)
    \/ NotifyEnhanced(CoreFrames)
    \/ DualStart
    \/ DualEnd
    \/ Commands
    \/ Quit
    \/ ShutdownStop
    \/ Disconnect
    \/ LinkDrop

Spec == Init /\ [][Next]_vars

\* the inbound side: every frame, both handlers
NextRx ==
    \/ Connect
    \/ Notify(Frames)
    \/ NotifyEnhanced(Frames)
    \/ DualStart
    \/ DualEnd

SpecRx == Init /\ [][NextRx]_vars

\* send_command of both controllers
NextSend ==
    \/ Connect
    \/ SendCommand
    \/ LinkDrop
    \/ T_Connect
    \/ T_SendCommand
    \/ T_LinkDrop

SpecSend == Init /\ [][NextSend]_vars

\* the motor operations over every speed of -MaxSpeed..MaxSpeed
AllSpeeds == (0 - MaxSpeed)..MaxSpeed

NextMotor ==
    \/ Connect
    \/ SetMotorSpeedOf(AllSpeeds)
    \/ SetMotorSimpleOf(AllSpeeds)
    \/ Test2Of(AllSpeeds)
    \/ Stop
    \/ LinkDrop

SpecMotor == Init /\ [][NextMotor]_vars

\* the sound ids and colors of -MaxId..MaxId
AllIds == (0 - MaxId)..MaxId

\* the frames the command operations build
CommandFrames ==
    {set_motor_speed_frame(s) : s \in Speeds}
        \cup {Message(set_motor_simple_command(s)) : s \in Speeds}
        \cup {play_sound_frame(i) : i \in SoundIds}
        \cup UNION {Range(set_light_color_frames(c)) : c \in Colors}
        \cup {Message(<<MSG_PORT_INFORMATION_REQUEST, p, t>>) :
                 p \in {50, 51}, t \in {1, 2}}
        \cup {Message(<<MSG_PORT_MODE_INFORMATION_REQUEST, p, m, t>>) :
                 p \in {50, 51}, m \in {0, 1}, t \in {0, 128}}

\* the command operations over every argument, and the notification handler
\* given the frames they build
NextCommands ==
    \/ Connect
    \/ PlaySoundOf(AllIds)
    \/ SetLightColorOf(AllIds)
    \/ SetMotorSpeed
    \/ QueryPortInformation
    \/ QueryPortModes
    \/ Notify(CommandFrames)
    \/ LinkDrop

SpecCommands == Init /\ [][NextCommands]_vars

\* DuploTrainToddlerController: what the program does
ToddlerProgram ==
    \/ T_MainAttempt
    \/ T_LoopExit
    \/ T_ConnectionLost
    \/ T_Continue
    \/ T_Key
    \/ T_Except
    \/ T_ReconnectAttempt
    \/ T_FinallyStop
    \/ T_FinallyDisconnect

NextToddler ==
    \/ ToddlerProgram
    \/ T_LinkDrop
    \/ T_Cancel

SpecToddler == Init /\ [][NextToddler]_vars

\* main() runs in one task that is always scheduled; scans and connects time
\* out, and a key is eventually typed.  The link is under no obligation.
SpecToddlerFair == SpecToddler /\ WF_vars(ToddlerProgram)

\* the longest run of the sweep of command 'D'
MaxSweep == 258

\* the sets read from working_commands.list
SkipSets == {{}, {<<0, 0>>}, {<<0, 1>>, <<0, 2>>, <<0, 204>>, <<1, 0>>}}

\* command 'D' on its own, with the sweep run over more than 256 commands
NextSweep ==
    \/ Connect
    \/ DualStartOf(SkipSets)
    \/ SweepStepTo(MaxSweep)
    \/ DualEnd
    \/ LinkDrop

SpecSweep == Init /\ [][NextSweep]_vars

\* the first commands of a sweep or a replay
MaxTrack == 3

\* unique_events as read from manual_events.txt
ReplayFiles == {<<>>, << <<7, 1>>, <<4, 2>> >>}

\* voltage and motion count readings and a motor feedback
SensorFrames ==
    {<<6, 0, 69, 53, 16, 39>>, <<6, 0, 69, 53, 232, 3>>,
     <<8, 0, 69, 54, 0, 0, 0, 0>>, <<8, 0, 69, 54, 5, 0, 0, 0>>,
     <<5, 0, 130, 52, 10>>}

\* commands 'D' and 'R' with the sensor notifications they subscribe to
NextTrack ==
    \/ Connect
    \/ DualStartOf({{}, {<<0, 1>>}})
    \/ SweepStepTo(MaxTrack)
    \/ NotifyEnhanced(SensorFrames)
    \/ DualEnd
    \/ ReplayStartOf(ReplayFiles)
    \/ ReplayStep
    \/ NotifyReplay(SensorFrames)
    \/ ReplayEnd
    \/ LinkDrop

SpecTrack == Init /\ [][NextTrack]_vars

\* the toddler program under a configuration that maps keys to COLOR and to
\* COLOR_<n>
NextColor ==
    \/ T_LoadConfig
    \/ T_MainAttempt
    \/ T_SetColor
    \/ T_CycleColor
    \/ T_CycleColorIter
    \/ T_Except
    \/ T_LinkDrop

SpecColor == Init /\ [][NextColor]_vars

\* the while loop of cycle_color has no await: once entered, its iterations
\* run one after the other
SpecColorFair == SpecColor /\ WF_vars(T_CycleColorIter)

\* the ways out of the command loop of DuploTrainController and its shutdown;
\* the toddler program is another process, run here once the first has ended
NextShutdown ==
    \/ Connect
    \/ Notify(ExampleFrames)
    \/ KeyDrive
    \/ Stop
    \/ Quit
    \/ ShutdownStop
    \/ Disconnect
    \/ LinkDrop
    \/ (phase = "done" /\ NextToddler)

SpecShutdown == Init /\ [][NextShutdown]_vars


-----------------------------------------------------------------------------
(* Vocabulary of the properties *)

Handlers == {"notification_handler", "enhanced_handler"}
KnownTypes == {4, 5, 67, 68, 69, 130}

\* the wire format: byte0 is the length of the whole frame, byte1 the hub id 0
Conforms(f) == Len(f) >= 2 /\ f[1] = Len(f) /\ f[2] = 0

\* the device types the controller records for a port
Lookup(port) ==
    (IF motor_port = Some(port) THEN {41} ELSE {})
        \cup (IF led_port = Some(port) THEN {91} ELSE {})

IsDetached(data, port) ==
    Len(data) >= 5 /\ data[3] = 4 /\ data[4] = port /\ data[5] = 0

IsAttachedLE(data) == Len(data) >= 7 /\ data[3] = 4 /\ data[5] = 1

-----------------------------------------------------------------------------
(* Properties *)

\* C1: every frame a command operation hands to the transport has byte0 equal
\* to the number of bytes of the frame and byte1 equal to 0.
C1_FramesConform == \A i \in 1..Len(tx) : Conforms(tx[i])

C3_ShortBufferIgnored ==
    [][(op' \in Handlers /\ Len(arg') < 3) =>
          /\ rd' = {}
          /\ result' = "None"
          /\ msg' = NoMsg
          /\ port_vars' = port_vars
          /\ sensor_vars' = sensor_vars]_vars

C3_Witness ==
    /\ op = "notification_handler"
    /\ Len(arg) = 2
    /\ rd = {}
    /\ motor_port # None

\* C4: a handler given a frame of a known message type that is shorter than
\* the layout of that type raises nothing and subscripts nothing past the end.
C4_ShortLayoutNoCrash ==
    (op \in Handlers /\ Len(arg) >= 3 /\ arg[3] \in KnownTypes) =>
        /\ result # "IndexError"
        /\ \A i \in rd : i < Len(arg)

\* C5: once a Detached event for port 50 is handled, port 50 hosts no device.
C5_DetachClearsPort ==
    (op = "notification_handler" /\ IsDetached(arg, 50)) => Lookup(50) = {}

\* C6: no port is the motor port and the LED port at the same time.
C6_OneDevicePerPort == ~(motor_port # None /\ motor_port = led_port)

\* C7: once an Attached event with a 2-byte device type is handled, the port
\* it names is recorded with that device type, whatever the device type.
C7_AttachRecordsType ==
    (op = "notification_handler" /\ result = "None" /\ IsAttachedLE(arg)) =>
        (arg[6] + 256 * arg[7]) \in Lookup(arg[4])

\* C8: the notification handler decodes a 5-byte frame of type 0x05 as a
\* Generic Error with the command type of byte3 and the error code of byte4.
C8_ErrorFrameDecoded ==
    (op = "notification_handler" /\ Len(arg) = 5 /\ arg[3] = 5) =>
        msg = [kind |-> "GenericError", cmd_type |-> arg[4], error_code |-> arg[5]]

\* C9: the motor, LED and speaker ports change only in a step of the
\* notification handler on a frame of message type 0x04.
C9_PortsChangeOnlyOnAttachedIO ==
    [][port_vars' # port_vars =>
          /\ op' = "notification_handler"
          /\ Len(arg') >= 3
          /\ arg'[3] = 4]_vars

C9_Witness ==
    /\ op = "set_motor_speed"
    /\ result = "None"
    /\ motor_port = Some(51)
    /\ led_port = Some(50)

\* C10: the notification handler takes a frame of an unknown message type to
\* completion without raising, and keeps nothing of it but the raw bytes.
C10_UnknownTypeKeptRaw ==
    [][(op' = "notification_handler" /\ Len(arg') >= 3 /\ arg'[3] \notin KnownTypes) =>
          /\ result' = "None"
          /\ msg' = NoMsg
          /\ rd' \subseteq {2}
          /\ last_notification' = Some(arg')
          /\ port_vars' = port_vars
          /\ sensor_vars' = sensor_vars]_vars

C10_Witness ==
    /\ op = "notification_handler"
    /\ Len(arg) = 3
    /\ arg[3] = 153
    /\ last_notification = Some(arg)
    /\ motor_port = Some(50)

-----------------------------------------------------------------------------
(* Properties of the motor commands *)

\* a frame that sets the motor speed of a port: 81 port 01 51 00 byte
IsMotorSpeedFrame(f) ==
    Len(f) = 8 /\ f[3] = 129 /\ f[5] = 1 /\ f[6] = 81 /\ f[7] = 0

\* the requested speed limited to -100..100
Limit(s) == IF s > 100 THEN 100 ELSE IF s < 0 - 100 THEN 0 - 100 ELSE s

\* the 8-bit two's complement of s
TwosComplement(s) == IF s < 0 THEN 256 + s ELSE s

SpeedOps == {"set_motor_speed", "set_motor_simple"}

\* C11: a motor-speed frame is written for a port only while the controller
\* records a motor attached on that port.
C11_MotorFrameOnlyToMotorPort ==
    \A i \in 1..Len(tx) :
        IsMotorSpeedFrame(tx[i]) => motor_port = Some(tx[i][4])

\* C12: set_motor_speed and set_motor_simple write for a speed the frame they
\* write for that speed limited to -100..100.
C12_SpeedClamped ==
    (op \in SpeedOps /\ tx # <<>>) =>
        tx = << IF op = "set_motor_speed"
                THEN set_motor_speed_frame(Limit(arg))
                ELSE Message(set_motor_simple_command(Limit(arg))) >>

C12_Witness ==
    /\ op = "set_motor_speed"
    /\ arg = 150
    /\ tx = << <<8, 0, 129, 50, 1, 81, 0, 100>> >>

\* C13: the speed byte on the wire is the 8-bit two's complement of the
\* limited speed, within 0..255; -1 gives 0xFF and 100 gives 0x64.
C13_SpeedByteTwosComplement ==
    (op \in SpeedOps /\ tx # <<>>) =>
        LET byte == tx[1][8]
        IN  /\ byte \in 0..255
            /\ byte = TwosComplement(Limit(arg))
            /\ arg = 0 - 1 => byte = 255
            /\ arg = 100 => byte = 100

C13_Witness ==
    /\ op = "set_motor_simple"
    /\ arg = 0 - 1
    /\ Len(tx) = 1
    /\ tx[1][8] = 255

\* C14: set_motor_speed, set_motor_simple, test2, stop and the STOP action
\* write one frame whose bytes after the header are 81 port 01 51 00 byte,
\* byte being the two's complement of the limited speed.
C14_MotorFrameLayout ==
    (/\ \/ op \in SpeedOps \cup {"test2", "stop"}
        \/ op = "t_execute_motor_action" /\ arg = <<"STOP">>
     /\ tx # <<>>) =>
        /\ Len(tx) = 1
        /\ IsMotorSpeedFrame(tx[1])
        /\ tx[1][8] = TwosComplement(Limit(IF op \in SpeedOps \cup {"test2"}
                                           THEN arg ELSE 0))

-----------------------------------------------------------------------------
(* Properties of the connection supervisor *)

\* C15: MaxAttempts scans in a row that find no train are all the scans of
\* the reconnection, which then clears self.running; once self.running is
\* clear nothing scans or connects again.
C15_ExhaustedAfterMaxAttempts ==
    [][/\ t_scans' <= MaxAttempts
       /\ t_notfound' = MaxAttempts =>
             /\ t_scans' = MaxAttempts
             /\ ~t_running'
             /\ t_pc' \in {"loop", "finally", "done"}
       /\ ~t_running =>
             /\ t_scans' = t_scans
             /\ t_client' = t_client
             /\ t_pc' \notin {"main", "reconnect"}]_vars

C15_Witness ==
    /\ t_notfound = MaxAttempts
    /\ t_scans = MaxAttempts
    /\ ~t_running
    /\ t_pc = "done"

\* C16: when the link is down while the control loop runs, the loop comes to
\* hold a connected client again or ends.
C16_LinkDownResolves ==
    (t_pc \in {"loop", "except", "reconnect"} /\ t_running /\ ~t_connected)
        ~> (t_connected \/ ~t_running \/ t_pc \in {"finally", "done"})

\* C17: a reconnection starts at attempt 0 with no scan made, whatever the
\* number of attempts that failed before the last connect, and has made as
\* many scans as its attempt index says.
C17_AttemptsResetOnConnect ==
    [][/\ (t_pc' = "reconnect" /\ t_pc # "reconnect") =>
             (t_attempt' = 0 /\ t_scans' = 0)
       /\ t_pc' = "reconnect" =>
             (t_scans' = t_attempt' /\ t_attempt' < MaxAttempts)]_vars

C17_Witness ==
    /\ t_pc = "reconnect"
    /\ op = "t_connection_lost"
    /\ t_attempt = 0
    /\ t_last_fails > 0

\* C18: connect of either controller returns True only when the activation
\* frame 05 00 01 02 02 went out, once.
C18_UsableOnlyAfterActivation ==
    (op \in {"connect", "t_connect"} /\ result = "True") =>
        tx = << <<5, 0, 1, 2, 2>> >>

\* C19: connect never replaces a client that is still connected, and at most
\* one client is connected at a time.
C19_SingleSession ==
    /\ t_orphans = 0
    /\ t_orphans + (IF t_connected THEN 1 ELSE 0) <= 1

\* the operations of the command loop that write whatever the link is
WriteOps ==
    {"send_command", "set_motor_simple", "set_motor_speed", "test2",
     "play_sound", "set_light_color", "drive", "hub_action", "hub_property",
     "query_port_information", "query_port_modes"}

\* the failure of a write call as its caller sees it: an exception, or False
\* returned by send_command
WriteFailed ==
    \/ result \in {"BleakError", "AttributeError", "False"}
    \/ "False" \in Range(rets)

\* C20: a command that writes while the link is down, or whose write loses
\* the link, has its write call fail, and leaves the ports, the client and the
\* device as they were.
C20_FailedWriteChangesNothing ==
    [][(/\ phase = "interactive"
        /\ call_vars' # call_vars
        /\ \/ op' \in WriteOps /\ ~is_connected
           \/ op' \in WriteOps \cup {"stop"} /\ is_connected /\ ~is_connected') =>
          /\ WriteFailed'
          /\ port_vars' = port_vars
          /\ client' = client
          /\ device' = device]_vars

C20_Witness ==
    /\ op = "set_motor_speed"
    /\ result = "BleakError"
    /\ tx = <<>>
    /\ ~is_connected
    /\ motor_port = Some(50)
    /\ client = "BleakClient"

-----------------------------------------------------------------------------
(* Properties of the sound, light and query commands *)

\* the bytes of a frame after its 2-byte header
Body(f) == SubSeq(f, 3, Len(f))

\* x limited to lo..hi
Within(lo, hi, x) == IF x < lo THEN lo ELSE IF x > hi THEN hi ELSE x

\* C21: play_sound, when its write goes out, writes one frame whose bytes
\* after the header are 02 01 s, s being the sound id limited to 1..10; the
\* frame is no port output command.
C21_PlaySoundFrame ==
    (op = "play_sound" /\ tx # <<>>) =>
        /\ Len(tx) = 1
        /\ Body(tx[1]) = <<2, 1, Within(1, 10, arg)>>
        /\ tx[1][5] \in 1..10
        /\ tx[1][3] # 129

C21_Witness ==
    /\ op = "play_sound"
    /\ arg = 11
    /\ tx = << <<4, 0, 2, 1, 10>> >>

\* C22: every frame set_light_color writes has the bytes 81 port flag 51 mode
\* index after the header, index being the color limited to 0..10.
C22_LightFrames ==
    op = "set_light_color" =>
        \A i \in 1..Len(tx) :
            /\ Len(Body(tx[i])) = 6
            /\ Body(tx[i])[1] = 129
            /\ Body(tx[i])[4] = 81
            /\ Body(tx[i])[6] = Within(0, 10, arg)
            /\ Body(tx[i])[6] \in 0..10

C22_Witness ==
    /\ op = "set_light_color"
    /\ arg = 0 - 1
    /\ Len(tx) = 3
    /\ tx[3] = <<8, 0, 129, 51, 17, 81, 1, 0>>

\* C23: the notification handler, given a frame a command operation builds,
\* decodes a message with the message type of the frame and, for the port
\* commands, its port.
C23_RoundTrip ==
    (op = "notification_handler" /\ arg \in CommandFrames) =>
        /\ msg # NoMsg
        /\ msg.msg_type = arg[3]
        /\ arg[3] \in {33, 34, 129} => msg.port = arg[4]

-----------------------------------------------------------------------------
(* Properties of the shutdown *)

\* the frame that stops the motor
StopFrame == <<8, 0, 129, 50, 1, 81, 0, 0>>

-----------------------------------------------------------------------------
(* Properties of the cancellation *)

\* C25: a cancellation arrives only in the wait between two reconnection
\* attempts, takes main() to its finally clause in that step, and after it no
\* step scans, connects or creates a client, and the program only goes on
\* through its shutdown.
C25_CancelEndsReconnection ==
    [][/\ (~t_cancelled /\ t_cancelled') =>
             /\ t_pc = "reconnect" /\ t_scans > 0
             /\ t_pc' = "finally"
             /\ t_scans' = t_scans /\ t_client' = t_client
       /\ t_cancelled =>
             /\ t_pc \in {"finally", "disconnecting", "done"}
             /\ t_pc' \in {"finally", "disconnecting", "done"}
             /\ t_scans' = t_scans
             /\ t_client' = t_client /\ t_device' = t_device
             /\ ~(~t_connected /\ t_connected')
             /\ op' \notin {"t_main", "t_handle_reconnection",
                            "t_connection_lost", "t_except"}]_vars

C25_Witness ==
    /\ t_cancelled
    /\ t_pc = "done"
    /\ t_running
    /\ t_reconnecting
    /\ t_scans > 0 /\ t_scans < MaxAttempts

-----------------------------------------------------------------------------
(* Properties of the colors *)

\* the colors of the range r after color c in cyclic order, nearest first
CyclicOrder(c, r) ==
    LET size == r.max - r.min + 1
    IN  [k \in 1..size |->
            IF c < r.min THEN r.min + (k - 1)
            ELSE r.min + ((c - r.min + k) % size)]

\* C26: a cycle_color call that returns or raises in its write leaves
\* current_color inside color_range, not 0, 11 or 16, and equal to the first
\* color after the previous current_color, in cyclic order of the range, that
\* is not 0, 11 or 16; the frame it writes is the color event with that byte.
C26_CycleColorNext ==
    [][(t_pc = "cycle_color" /\ t_pc' # "cycle_color") =>
          LET order == CyclicOrder(t_current_color, t_config)
              K == {k \in DOMAIN order : order[k] \notin {0, 11, 16}}
          IN  /\ t_current_color' >= t_config.min
              /\ t_current_color' <= t_config.max
              /\ t_current_color' \notin {0, 11, 16}
              /\ K # {}
              /\ \E k \in K : /\ \A j \in K : k <= j
                              /\ t_current_color' = order[k]
              /\ tx' \in {<<>>, << <<10, 0, 129, 52, 17, 81, 1, 4, 1,
                                    t_current_color'>> >>}
              /\ tx' = <<>> => ~t_connected']_vars

C26_Witness ==
    /\ op = "t_cycle_color"
    /\ t_pc = "loop"
    /\ t_config = [min |-> 10, max |-> 12]
    /\ arg = <<"COLOR", 10>>
    /\ t_current_color = 12
    /\ tx = << <<10, 0, 129, 52, 17, 81, 1, 4, 1, 12>> >>

\* C27: every cycle_color call ends.
C27_CycleColorTerminates == (t_pc = "cycle_color") ~> (t_pc # "cycle_color")

-----------------------------------------------------------------------------
(* Properties of the command buffers *)

\* the commands of the first n iterations of the sweep that are not skipped,
\* in the order of the loops
IsIssued(c) == c \notin skip_commands
Issued(n) ==
    SelectSeq([i \in 1..n |-> <<(i - 1) \div 256, (i - 1) % 256>>], IsIssued)

\* the last k entries of s, or all of s when it has fewer
LastOf(s, k) == IF Len(s) <= k THEN s ELSE SubSeq(s, Len(s) - k + 1, Len(s))

\* C30: between the steps of the sweep last_5_commands has at most 5 entries
\* and last_200_commands at most 200, last_200_commands holds the most recent
\* commands issued, in issue order, and last_5_commands the most recent
\* min(5, n) of them.
C30_BuffersBounded ==
    phase \in {"sweep", "swept"} =>
       /\ Len(last_5_commands) <= 5
       /\ Len(last_200_commands) <= 200
       /\ last_200_commands = LastOf(Issued(sweep_pos), 200)
       /\ last_5_commands = LastOf(last_200_commands, 5)
       /\ Len(last_5_commands) =
             (IF Len(Issued(sweep_pos)) < 5 THEN Len(Issued(sweep_pos)) ELSE 5)

C30_Witness ==
    /\ phase = "sweep"
    /\ op = "sweep_step"
    /\ skip_commands = {<<0, 1>>, <<0, 2>>, <<0, 204>>, <<1, 0>>}
    /\ sweep_pos = 258
    /\ Len(last_200_commands) = 200
    /\ last_200_commands[1] = <<0, 56>>
    /\ last_5_commands = <<<<0, 252>>, <<0, 253>>, <<0, 254>>, <<0, 255>>, <<1, 1>>>>

\* the buffers command_lock protects
Buffers == {"last_5_commands", "last_200_commands", "command_history"}

\* C24: every use of a command buffer by a notification handler or by an
\* iteration of the loops of commands 'D' and 'R' happens with command_lock
\* held.
C24_BuffersUnderLock ==
    op \in {"enhanced_handler", "replay_handler", "sweep_step", "replay_step"} =>
       \A a \in acc : a.buf \in Buffers => a.locked

=============================================================================
